---- MODULE Spec2Model ----
(***************************************************************************)
(* A model of stickerpack.py: the StickerPack class (constructor,          *)
(* add_sticker, export) together with the behaviour of the two libraries   *)
(* it drives, as far as the class observes it: PIL's Image.open / resize / *)
(* save on an io.BytesIO, and zipfile's entry writes.                      *)
(*                                                                         *)
(* A byte buffer is a sequence of tokens.  An encoded image is a header    *)
(* token (format and pixel size) followed by a data token (the pixel      *)
(* content); anything else is junk.  Image.open reads the header only      *)
(* (PIL opens lazily); the pixel data is read when the image is loaded,    *)
(* which resize and save both do.                                          *)
(***************************************************************************)
EXTENDS Integers, Sequences, FiniteSets, TLC

VARIABLES phase, name, author, tray_image_buf, stickers, last

vars == <<phase, name, author, tray_image_buf, stickers, last>>

pack == <<name, author, tray_image_buf, stickers>>

(***************************************************************************)
(* Program constants.                                                      *)
(***************************************************************************)
STICKER_MAX_PIXELS == <<512, 512>>

TRAY_MAX_PIXELS == <<96, 96>>

STICKERS_PER_PACK_MAX == 30

(***************************************************************************)
(* Bounds of the model.                                                    *)
(***************************************************************************)
\* add_sticker draws its input from every sample while the pack holds fewer
\* than MaxVaried stickers, and from the two plain samples afterwards.
MaxVaried == 2

\* A sink either takes every entry or fails once it holds 0..MaxRoom entries.
MaxRoom == 3

(***************************************************************************)
(* Bytes: tokens and the sample buffers the callers pass in.               *)
(***************************************************************************)
NoSize == <<0, 0>>

NoPx == [id |-> "-", from |-> NoSize]

Token(k, fmt, size, px, text) ==
    [k |-> k, fmt |-> fmt, size |-> size, px |-> px, text |-> text]

Hdr(fmt, size) == Token("hdr", fmt, size, NoPx, "")

Dat(px) == Token("dat", "-", NoSize, px, "")

Junk == Token("junk", "-", NoSize, NoPx, "")

\* The bytes of a text, as ZipFile.writestr encodes a str (UTF-8).
Utf8(text) == <<Token("txt", "-", NoSize, NoPx, text)>>

\* A well-formed image file of the given format and size with content id.
File(fmt, size, id) == <<Hdr(fmt, size), Dat([id |-> id, from |-> size])>>

\* A file cut off after its header: it opens, and fails when loaded.
Truncated(fmt, size) == <<Hdr(fmt, size)>>

\* Bytes no codec identifies.
Garbage == <<Junk>>

(***************************************************************************)
(* PIL, as the class uses it.                                              *)
(***************************************************************************)
\* Image.open(fp) succeeds when the buffer starts with a header.
CanOpen(buf) == Len(buf) >= 1 /\ buf[1].k = "hdr"

\* Image.open(fp): a lazy image, format and size from the header, pixel
\* data still in fp.
Image_open(buf) ==
    [format |-> buf[1].fmt, size |-> buf[1].size, px |-> NoPx, fp |-> buf]

\* Image.load() succeeds when the pixel data follows the header (or the
\* image never was file-backed).
CanLoad(img) == img.fp = <<>> \/ (Len(img.fp) >= 2 /\ img.fp[2].k = "dat")

\* The pixel content of an image once loaded.
Pixels(img) == IF img.fp = <<>> THEN img.px ELSE img.fp[2].px

\* Image.resize(size): a new in-memory image of the requested size holding
\* the resampled content; a new image has no format (Image.format is None
\* for images not read from a file).
Resize(img, size) ==
    [format |-> "NONE", size |-> size, px |-> Pixels(img), fp |-> <<>>]

\* Image.save(fp, format): the bytes the encoder writes.
Encode(img, fmt) == <<Hdr(fmt, img.size), Dat(Pixels(img))>>

\* io.BytesIO.write(b) at position pos: overwrites from pos, extends the
\* buffer when b runs past its end, keeps what lies beyond pos + len(b).
BytesIOWrite(buf, pos, b) ==
    SubSeq(buf, 1, pos) \o b \o SubSeq(buf, pos + Len(b) + 1, Len(buf))

\* The positions a BytesIO can be at after the image read from it has been
\* loaded: the header and the pixel data are consumed, and the decoder may
\* have read ahead as far as the end of the buffer.
PositionsAfterLoad(buf) == 2 .. Len(buf)

(***************************************************************************)
(* The record of the last call: operation, argument, outcome, whether the  *)
(* call reached Image.open, what export wrote to its sink, and whether     *)
(* the call is a completed export that follows a completed export.         *)
(***************************************************************************)
Call(op, arg, res, opened, out, again) ==
    [op |-> op, arg |-> arg, res |-> res, opened |-> opened, out |-> out,
     again |-> again]

IsStickerPackError(res) == res \in {"blank names are not allowed", "too many stickers"}

(***************************************************************************)
(* Inputs.                                                                 *)
(***************************************************************************)
Names == {"", "Cats"}

Authors == {"", "Alice"}

TrayInputs ==
    { File("PNG", TRAY_MAX_PIXELS, "t"),
      File("JPEG", <<200, 200>>, "t") \o <<Junk>>,
      Truncated("PNG", <<200, 200>>),
      Garbage }

Init ==
    /\ phase = "new"
    /\ name = ""
    /\ author = ""
    /\ tray_image_buf = <<>>
    /\ stickers = <<>>
    /\ last = Call("none", <<>>, "ok", FALSE, <<>>, FALSE)

(***************************************************************************)
(* StickerPack.__init__                                                    *)
(***************************************************************************)
\* A variant that rejects only when both texts are empty.
BlankBoth(n, a) == n = "" /\ a = ""

\* `not (name and author)`
Blank(n, a) == ~(n /= "" /\ a /= "")

\* The tray image as saved: resized unless it already has the tray size.
TrayImage(img) ==
    IF img.size /= TRAY_MAX_PIXELS THEN Resize(img, TRAY_MAX_PIXELS) ELSE img

Construct(n, a, tray_image) ==
    /\ phase = "new"
    /\ LET arg == [name |-> n, author |-> a, tray_image |-> tray_image] IN
       IF Blank(n, a)
       THEN /\ phase' = "failed"
            /\ last' = Call("init", arg, "blank names are not allowed",
                            FALSE, <<>>, FALSE)
            /\ UNCHANGED pack
       ELSE /\ name' = n
            /\ author' = a
            /\ stickers' = <<>>
            /\ IF ~CanOpen(tray_image)
               THEN /\ tray_image_buf' = tray_image
                    /\ phase' = "failed"
                    /\ last' = Call("init", arg, "cannot identify image file",
                                    TRUE, <<>>, FALSE)
               ELSE LET img == Image_open(tray_image) IN
                    IF ~CanLoad(img)
                    THEN /\ tray_image_buf' = tray_image
                         /\ phase' = "failed"
                         /\ last' = Call("init", arg, "image file is truncated",
                                         TRUE, <<>>, FALSE)
                    ELSE /\ \E pos \in PositionsAfterLoad(tray_image) :
                              tray_image_buf' =
                                  BytesIOWrite(tray_image, pos,
                                               Encode(TrayImage(img), "PNG"))
                         /\ phase' = "ready"
                         /\ last' = Call("init", arg, "ok", TRUE, <<>>, FALSE)

(***************************************************************************)
(* StickerPack.add_sticker                                                 *)
(***************************************************************************)
StickerInputs ==
    { File("PNG", STICKER_MAX_PIXELS, "a"),
      File("WEBP", STICKER_MAX_PIXELS, "b"),
      File("WEBP", <<300, 300>>, "c"),
      File("JPEG", STICKER_MAX_PIXELS, "d"),
      Truncated("PNG", STICKER_MAX_PIXELS),
      Truncated("PNG", <<64, 64>>),
      Garbage }

PlainInputs == { File("PNG", STICKER_MAX_PIXELS, "a"), Garbage }

AddInputs == IF Len(stickers) < MaxVaried THEN StickerInputs ELSE PlainInputs

\* A variant that refuses the add once the pack holds the maximum.
TooManyStrict(count) == ~(count < STICKERS_PER_PACK_MAX)

\* `not len(self.stickers) <= STICKERS_PER_PACK[1]`
TooMany(count) == ~(count <= STICKERS_PER_PACK_MAX)

\* Whether add_sticker resizes the opened image.
NeedsResize(img) == img.size /= STICKER_MAX_PIXELS

\* A variant that puts the new sticker first.
StoredFront(seq, img) == <<img>> \o seq

\* `self.stickers.append(img)`
Stored(seq, img) == Append(seq, img)

\* A variant that stores the opened image before it resizes it, so that a
\* failing resize leaves the unresized image in the pack.
AddStickerEager(image_data) ==
    /\ phase = "ready"
    /\ UNCHANGED <<phase, name, author, tray_image_buf>>
    /\ IF TooMany(Len(stickers))
       THEN /\ last' = Call("add", image_data, "too many stickers",
                            FALSE, <<>>, FALSE)
            /\ UNCHANGED stickers
       ELSE IF ~CanOpen(image_data)
       THEN /\ last' = Call("add", image_data, "cannot identify image file",
                            TRUE, <<>>, FALSE)
            /\ UNCHANGED stickers
       ELSE LET img == Image_open(image_data) IN
            IF NeedsResize(img) /\ ~CanLoad(img)
            THEN /\ last' = Call("add", image_data, "image file is truncated",
                                 TRUE, <<>>, FALSE)
                 /\ stickers' = Stored(stickers, img)
            ELSE /\ stickers' =
                        Stored(stickers,
                               IF NeedsResize(img)
                               THEN Resize(img, STICKER_MAX_PIXELS)
                               ELSE img)
                 /\ last' = Call("add", image_data, "ok", TRUE, <<>>, FALSE)

\* Opening and resizing can both fail; nothing is stored unless both have
\* succeeded, because the append is the last statement of the method.
AddSticker(image_data) ==
    /\ phase = "ready"
    /\ UNCHANGED <<phase, name, author, tray_image_buf>>
    /\ IF TooMany(Len(stickers))
       THEN /\ last' = Call("add", image_data, "too many stickers",
                            FALSE, <<>>, FALSE)
            /\ UNCHANGED stickers
       ELSE IF ~CanOpen(image_data)
       THEN /\ last' = Call("add", image_data, "cannot identify image file",
                            TRUE, <<>>, FALSE)
            /\ UNCHANGED stickers
       ELSE LET img == Image_open(image_data) IN
            IF NeedsResize(img) /\ ~CanLoad(img)
            THEN /\ last' = Call("add", image_data, "image file is truncated",
                                 TRUE, <<>>, FALSE)
                 /\ UNCHANGED stickers
            ELSE /\ stickers' =
                        Stored(stickers,
                               IF NeedsResize(img)
                               THEN Resize(img, STICKER_MAX_PIXELS)
                               ELSE img)
                 /\ last' = Call("add", image_data, "ok", TRUE, <<>>, FALSE)

(***************************************************************************)
(* StickerPack.export                                                      *)
(***************************************************************************)
NoLimit == 0 - 1

\* A sink that takes every entry, or fails on the write after `limit` entries.
Sinks == (0 .. MaxRoom) \cup {NoLimit}

Entry(n, data) == [name |-> n, data |-> data]

\* str.lower() on the two format names export can choose.
Lower(fmt) == IF fmt = "PNG" THEN "png" ELSE IF fmt = "WEBP" THEN "webp" ELSE fmt

\* The format export saves a sticker in.
StickerFormat(sticker) ==
    IF sticker.format \notin {"PNG", "WEBP"} THEN "PNG" ELSE sticker.format

\* f"{count}.{sticker_format.lower()}"
EntryName(count, fmt) == ToString(count) \o "." \o Lower(fmt)

\* A variant that writes the title before the author.
HeadEntriesTitleFirst ==
    << Entry("title.txt", Utf8(name)),
       Entry("author.txt", Utf8(author)),
       Entry("0.png", tray_image_buf) >>

\* The three entries written before the stickers, in the order written.
HeadEntries ==
    << Entry("author.txt", Utf8(author)),
       Entry("title.txt", Utf8(name)),
       Entry("0.png", tray_image_buf) >>

\* The writes of export from entry j on, to a sink that fails after `limit`
\* entries: what the archive holds at the end, and how the call ended.  An
\* entry is opened in the archive before the sticker is saved into it, so
\* a sticker that fails to load leaves an empty entry behind.
RECURSIVE Write(_, _, _)
Write(j, limit, acc) ==
    IF j > Len(stickers) + 3
    THEN [out |-> acc, res |-> "ok"]
    ELSE IF limit /= NoLimit /\ Len(acc) >= limit
    THEN [out |-> acc, res |-> "sink write failed"]
    ELSE IF j <= 3
    THEN Write(j + 1, limit, Append(acc, HeadEntries[j]))
    ELSE LET sticker == stickers[j - 3]
             fmt == StickerFormat(sticker)
         IN  IF ~CanLoad(sticker)
             THEN [out |-> Append(acc, Entry(EntryName(j - 3, fmt), <<>>)),
                   res |-> "image file is truncated"]
             ELSE Write(j + 1, limit,
                        Append(acc, Entry(EntryName(j - 3, fmt),
                                          Encode(sticker, fmt))))

\* A variant that consumes the stickers as it writes them.
ExportDraining(limit) ==
    /\ phase = "ready"
    /\ LET done == Write(1, limit, <<>>) IN
       last' = Call("export", limit, done.res, FALSE, done.out,
                    done.res = "ok" /\ last.op = "export" /\ last.res = "ok")
    /\ stickers' = <<>>
    /\ UNCHANGED <<phase, name, author, tray_image_buf>>

\* export reads the pack and writes to the sink; it assigns nothing.
Export(limit) ==
    /\ phase = "ready"
    /\ LET done == Write(1, limit, <<>>) IN
       last' = Call("export", limit, done.res, FALSE, done.out,
                    done.res = "ok" /\ last.op = "export" /\ last.res = "ok")
    /\ UNCHANGED <<phase, name, author, tray_image_buf, stickers>>

Next ==
    \/ \E n \in Names, a \in Authors, t \in TrayInputs : Construct(n, a, t)
    \/ \E image_data \in AddInputs : AddSticker(image_data)
    \/ \E limit \in Sinks : Export(limit)

Spec == Init /\ [][Next]_vars

(***************************************************************************)
(* Properties.                                                             *)
(***************************************************************************)
\* Bytes that open and load: a decodable image.
Decodable(bytes) == CanOpen(bytes) /\ CanLoad(Image_open(bytes))

\* The text a run of UTF-8 bytes decodes to.
Utf8Decode(bytes) == bytes[1].text

\* The extension the documentation gives a sticker decoded as fmt.
ExtOf(fmt) == IF fmt = "WEBP" THEN "webp" ELSE "png"

\* Bytes that are the PNG encoding of a tray-sized image and nothing else.
IsTrayPng(bytes) ==
    /\ Len(bytes) = 2
    /\ bytes[1] = Hdr("PNG", TRAY_MAX_PIXELS)
    /\ bytes[2].k = "dat"

\* C1: the number of stored stickers never exceeds the configured maximum
\* STICKERS_PER_PACK[1], and an add that would pass it fails with
\* StickerPackError.
C1_AtMostCeiling == Len(stickers) <= STICKERS_PER_PACK_MAX

\* C2: export names the entry of the sticker at position i by the format
\* the sticker's input decoded as (i.webp for WEBP, i.png otherwise),
\* whether or not add_sticker resized it.  Stated on an export that follows
\* the add of that sticker.
C2_NamedByDecodedFormat ==
    [][(/\ last.op = "add"
        /\ last.res = "ok"
        /\ last'.op = "export"
        /\ Len(last'.out) >= Len(stickers) + 3)
       => last'.out[Len(stickers) + 3].name =
              ToString(Len(stickers)) \o "." \o ExtOf(Image_open(last.arg).format)]_vars

\* C3: the bytes held as the tray image, and written by export as 0.png,
\* are exactly the PNG encoding of the 96x96 tray image, with no bytes of
\* the constructor's input before, inside or after it.
C3_TrayBytesArePng ==
    /\ phase = "ready" => IsTrayPng(tray_image_buf)
    /\ (last.op = "export" /\ Len(last.out) >= 3) => IsTrayPng(last.out[3].data)

\* C4: a completed export of a pack of N stickers writes exactly N+3
\* entries: author.txt holding the author, title.txt holding the name,
\* 0.png holding the tray image bytes, then for i = 1..N an entry numbered
\* i that holds the i-th sticker; name and author are the texts the
\* constructor was given.
C4_ExportLayout ==
    /\ (last.op = "init" /\ last.res = "ok")
           => (name = last.arg.name /\ author = last.arg.author)
    /\ (last.op = "export" /\ last.res = "ok")
           => /\ Len(last.out) = Len(stickers) + 3
              /\ last.out[1].name = "author.txt"
              /\ Utf8Decode(last.out[1].data) = author
              /\ last.out[2].name = "title.txt"
              /\ Utf8Decode(last.out[2].data) = name
              /\ last.out[3].name = "0.png"
              /\ last.out[3].data = tray_image_buf
              /\ \A i \in 1 .. Len(stickers) :
                    LET e == last.out[i + 3] IN
                    /\ e.name \in {ToString(i) \o ".png", ToString(i) \o ".webp"}
                    /\ Decodable(e.data)
                    /\ Image_open(e.data).size = stickers[i].size
                    /\ Pixels(Image_open(e.data)) = Pixels(stickers[i])

C4_Witness ==
    /\ last.op = "export"
    /\ last.res = "ok"
    /\ Len(stickers) >= 2
    /\ stickers[1] /= stickers[2]

\* C5: a constructor call with an empty name or an empty author fails with
\* StickerPackError whatever the other arguments are, before any image is
\* opened; with both non-empty and a decodable tray image it succeeds and
\* the pack has no stickers.
C5_BlankRejected ==
    last.op = "init" =>
        /\ (last.arg.name = "" \/ last.arg.author = "")
               => /\ phase = "failed"
                  /\ last.res = "blank names are not allowed"
                  /\ IsStickerPackError(last.res)
                  /\ ~last.opened
        /\ (last.arg.name /= "" /\ last.arg.author /= ""
                /\ Decodable(last.arg.tray_image))
               => /\ phase = "ready"
                  /\ last.res = "ok"
                  /\ stickers = <<>>

C5_Witness ==
    /\ last.op = "init"
    /\ last.arg.name /= ""
    /\ last.arg.author = ""
    /\ Decodable(last.arg.tray_image)
    /\ phase = "failed"

\* C6: every stored sticker is exactly 512x512 and the tray image the pack
\* holds is exactly 96x96, whatever the size of the input.
C6_FixedDimensions ==
    phase = "ready" =>
        /\ \A i \in 1 .. Len(stickers) : stickers[i].size = STICKER_MAX_PIXELS
        /\ CanOpen(tray_image_buf)
        /\ Image_open(tray_image_buf).size = TRAY_MAX_PIXELS

\* The half of C6 that is about the stickers.
C6_StickersSized ==
    \A i \in 1 .. Len(stickers) : stickers[i].size = STICKER_MAX_PIXELS

\* C7: export leaves name, author, tray image bytes and the stickers as
\* they were, whether it completes or fails, and a completed export that
\* follows a completed export writes the same entries in the same order
\* with the same content.
C7_ExportReadsOnly ==
    [][(last'.op = "export" => pack' = pack)
       /\ ((last.op = "export" /\ last.res = "ok"
                /\ last'.op = "export" /\ last'.res = "ok")
              => last'.out = last.out)]_vars

C7_Witness ==
    /\ last.op = "export"
    /\ last.again
    /\ Len(stickers) >= 2

C9_FailedAddKeepsPack ==
    [][(last'.op = "add" /\ last'.res /= "ok") => pack' = pack]_vars

C9_Witness ==
    /\ last.op = "add"
    /\ last.res = "image file is truncated"
    /\ Len(stickers) >= 1

\* C10: the stickers are append-only: a successful add_sticker puts the new
\* sticker last and leaves name, author, tray image and every earlier
\* sticker where it was; no call shortens the sequence or moves a sticker.
C10_AppendOnly ==
    [][/\ Len(stickers') >= Len(stickers)
       /\ SubSeq(stickers', 1, Len(stickers)) = stickers
       /\ (last'.op = "add" /\ last'.res = "ok")
              => /\ Len(stickers') = Len(stickers) + 1
                 /\ CanOpen(last'.arg)
                 /\ Decodable(last'.arg)
                        => Pixels(stickers'[Len(stickers')])
                               = Pixels(Image_open(last'.arg))
                 /\ UNCHANGED <<name, author, tray_image_buf>>]_vars

C10_Witness ==
    /\ last.op = "add"
    /\ last.res = "ok"
    /\ Len(stickers) >= 2
    /\ stickers[1] /= stickers[2]
====
